---- MODULE Spec2Model ----
(***************************************************************************)
(* Model of the event platform's reservation engine:                       *)
(*   src/controllers/rsvpController.js  createRSVP (Join), cancelRSVP      *)
(*                                      (Leave)                            *)
(*   src/controllers/eventController.js createEvent, getEventById,         *)
(*                                      updateEvent, deleteEvent           *)
(*   src/unnamed/part_000               deleteAccount                      *)
(*   src/models/Event.js                the Event and RSVP schemas, the    *)
(*                                      pre('save') status hook            *)
(* Every await of a handler on the store is one atomic step of the model;  *)
(* between two awaits of one request any other request may run.            *)
(***************************************************************************)
EXTENDS Integers, FiniteSets

\* ---------------------------------------------------------------- bounds
NumUsers == 2      \* user ids are 1..NumUsers
NumEvents == 1     \* event ids are 1..NumEvents
NumReqs == 2       \* requests issued in one behaviour, any of them in flight at once
SeqReqs == 3       \* requests issued in one behaviour, one at a time
MaxCap == 2        \* capacities tried are 1..MaxCap (the schema allows 1..10000)
RaceN == 3         \* number of racing users in the capacity race
AdmReqs == 3       \* requests of one behaviour with event administration, one at a time
ConcReqs == 3      \* requests of one behaviour with event administration, in flight at once
ClockReqs == 3     \* requests of one behaviour with a wall clock
MaxTime == 6       \* wall-clock hours are 0..MaxTime
MaxDate == 2       \* event dates tried are 0..MaxDate
AuthReqs == 2      \* requests of one behaviour of the organizer check, one at a time
FrameReqs == 3     \* requests of one behaviour on two events, one at a time per event
LeaveN == 3        \* largest number of Leaves racing for one reservation

UserIds == 1..NumUsers
EventIds == 1..NumEvents

VARIABLES
  events,   \* the Event collection: event id -> document (existing events only)
  rsvps,    \* the RSVP collection: a set of documents
  req       \* the HTTP requests: slot -> handler state

vars == <<events, rsvps, req>>

\* The shape of the two collections: the schema fields the reservation engine
\* reads and writes.
EventDocOK(doc) ==
  /\ doc.capacity \in 1..10000
  /\ doc.currentAttendees \in Int
  /\ IsFiniteSet(doc.attendees)
RsvpDocOK(r) ==
  /\ r.id \in DOMAIN req
  /\ r.event \in EventIds
  /\ r.status \in {"confirmed", "cancelled", "waitlist"}
TypeOK ==
  /\ DOMAIN events \subseteq EventIds
  /\ \A e \in DOMAIN events : EventDocOK(events[e])
  /\ \A r \in rsvps : RsvpDocOK(r)

\* ------------------------------------------------------- store queries
\* RSVP.findOne({user, event, status: 'confirmed'})
FindConfirmed(u, e) ==
  {r \in rsvps : r.user = u /\ r.event = e /\ r.status = "confirmed"}

\* RSVP.find({event, status: 'confirmed'}).length
ConfirmedCount(e) ==
  Cardinality({r \in rsvps : r.event = e /\ r.status = "confirmed"})

\* Faulty variant: the collection has no unique index.
NoUniqueIndex(u, e) == TRUE
\* The store refuses an insert into the unique index {user, event}, whatever
\* the status of the document already there.
UniqueIndexFree(u, e) ==
  ~ \E r \in rsvps : r.user = u /\ r.event = e

\* Faulty variant: the filter compares with $lte.
GateOffByOne(e) ==
  e \in DOMAIN events /\ events[e].currentAttendees <= events[e].capacity
\* The filter of the capacity gate: the event exists and
\* $expr: {$lt: ['$currentAttendees', '$capacity']}.
GateMatches(e) ==
  e \in DOMAIN events /\ events[e].currentAttendees < events[e].capacity

\* Faulty variant: the update adds the user and forgets the $inc.
GateNoInc(doc, u) ==
  [doc EXCEPT !.attendees = @ \cup {u}]
\* The update of the capacity gate: $inc currentAttendees by 1, $addToSet the user.
GateUpdate(doc, u) ==
  [doc EXCEPT !.currentAttendees = @ + 1, !.attendees = @ \cup {u}]

\* Faulty variant: the update decrements by 2.
LeaveDecTwice(doc, u) ==
  [doc EXCEPT !.currentAttendees = @ - 2, !.attendees = @ \ {u}]
\* Faulty variant: the update pulls the user and forgets the $inc.
LeaveNoDec(doc, u) ==
  [doc EXCEPT !.attendees = @ \ {u}]
\* The update of Leave: $inc currentAttendees by -1, $pull the user.
LeaveUpdate(doc, u) ==
  [doc EXCEPT !.currentAttendees = @ - 1, !.attendees = @ \ {u}]

\* ------------------------------------------------------------ requests
\* No event document held (the handler's `event` is null or not yet read).
NoDoc == [currentAttendees |-> -1, capacity |-> -1]
NoPre == [currentAttendees |-> -1, reserved |-> FALSE]

\* A field the request body does not carry (req.body.<field> is undefined).
Absent == -9
\* The empty request body {}.
NoBody == [capacity |-> Absent, currentAttendees |-> Absent, status |-> "absent"]

\* No new document held (createEvent has built none).
NoEvent ==
  [capacity |-> -1, currentAttendees |-> -1, attendees |-> {}, organizer |-> 0,
   status |-> "none", date |-> -1]

\* A request slot before the request arrives. body is req.body of updateEvent,
\* at the wall-clock hour at which the handler runs, seen the status in the
\* response of a read, removed the events a deleteAccount has deleted, created
\* the document createEvent has built and not yet inserted.
IdleReq ==
  [op |-> "none", user |-> 0, event |-> 0, pc |-> "idle", result |-> "none",
   rsvp |-> 0, rsvpFound |-> FALSE, doc |-> NoDoc, pre |-> NoPre,
   body |-> NoBody, at |-> 0, seen |-> "none", removed |-> {},
   created |-> NoEvent]

\* History kept with a request, read by no handler: what the two ledgers held
\* for the request's pair when it arrived (currentAttendees is -1 when the
\* event did not exist).
Pre(u, e) ==
  [currentAttendees |-> IF e \in DOMAIN events THEN events[e].currentAttendees ELSE -1,
   reserved |-> FindConfirmed(u, e) # {}]

\* Slots are numbered in order of arrival.
NextSlot(p) ==
  /\ req[p].pc = "idle"
  /\ \A q \in DOMAIN req : q < p => req[q].pc # "idle"

Quiescent == \A q \in DOMAIN req : req[q].pc \in {"idle", "done"}

Respond(p, result) ==
  req' = [req EXCEPT ![p].pc = "done", ![p].result = result]

\* The response's availableSpots: event.capacity - event.currentAttendees.
AvailableSpots(p) == req[p].doc.capacity - req[p].doc.currentAttendees

\* ------------------------------------------------------------- actions
\* eventController.createEvent: Event.create with the schema defaults. Only the
\* fields the reservation engine reads or writes are kept.
createEvent(e, c) ==
  /\ e \notin DOMAIN events
  /\ \A x \in EventIds : x < e => x \in DOMAIN events
  /\ events' = [x \in DOMAIN events \cup {e} |->
                  IF x = e
                    THEN [capacity |-> c, currentAttendees |-> 0, attendees |-> {}]
                    ELSE events[x]]
  /\ UNCHANGED <<rsvps, req>>

\* Faulty variant: step 1 is missing, every Join goes on to the gate.
createRSVP_NoCheck(p, u, e) ==
  /\ NextSlot(p)
  /\ req' = [req EXCEPT ![p] = [IdleReq EXCEPT !.op = "join", !.user = u,
                                  !.event = e, !.pc = "gate", !.pre = Pre(u, e)]]
  /\ UNCHANGED <<events, rsvps>>
\* createRSVP step 1: RSVP.findOne; an existing confirmed RSVP ends the request.
createRSVP_findOne(p, u, e) ==
  /\ NextSlot(p)
  /\ req' = [req EXCEPT ![p] =
       IF FindConfirmed(u, e) # {}
         THEN [IdleReq EXCEPT !.op = "join", !.user = u, !.event = e,
                 !.pc = "done", !.result = "AlreadyReserved", !.pre = Pre(u, e)]
         ELSE [IdleReq EXCEPT !.op = "join", !.user = u, !.event = e,
                 !.pc = "gate", !.pre = Pre(u, e)]]
  /\ UNCHANGED <<events, rsvps>>

\* createRSVP steps 2 and 3: Event.findOneAndUpdate, one atomic store operation.
createRSVP_findOneAndUpdate(p) ==
  /\ req[p].pc = "gate"
  /\ LET e == req[p].event
         u == req[p].user
     IN IF GateMatches(e)
          THEN /\ events' = [events EXCEPT ![e] = GateUpdate(@, u)]
               /\ req' = [req EXCEPT ![p].pc = "presave",
                            ![p].doc = [currentAttendees |-> events'[e].currentAttendees,
                                        capacity |-> events'[e].capacity]]
          ELSE /\ Respond(p, "FullOrMissing")
               /\ UNCHANGED events
  /\ UNCHANGED rsvps

\* createRSVP step 4, RSVP.create, first half: the pre('save') hook's findOne.
\* Its error carries code 11000, which the catch block answers with 400.
RSVP_preSave(p) ==
  /\ req[p].pc = "presave"
  /\ IF FindConfirmed(req[p].user, req[p].event) # {}
       THEN Respond(p, "AlreadyReserved")
       ELSE req' = [req EXCEPT ![p].pc = "insert"]
  /\ UNCHANGED <<events, rsvps>>

\* createRSVP step 4, second half: the insert, refused by the unique index
\* with error code 11000.
RSVP_insert(p) ==
  /\ req[p].pc = "insert"
  /\ IF UniqueIndexFree(req[p].user, req[p].event)
       THEN /\ rsvps' = rsvps \cup {[id |-> p, user |-> req[p].user,
                                      event |-> req[p].event, status |-> "confirmed"]}
            /\ req' = [req EXCEPT ![p].pc = "populate", ![p].rsvp = p]
       ELSE /\ Respond(p, "AlreadyReserved")
            /\ UNCHANGED rsvps
  /\ UNCHANGED events

\* createRSVP: the main query of RSVP.findById(rsvp._id). A record that is
\* found is populated next; for a record that is gone the query chain ends
\* here and the 201 response carries rsvp: null.
createRSVP_findById(p) ==
  /\ req[p].pc = "populate"
  /\ LET found == \E r \in rsvps : r.id = req[p].rsvp
     IN req' = [req EXCEPT ![p] =
          IF found
            THEN [@ EXCEPT !.pc = "populateUser", !.rsvpFound = TRUE]
            ELSE [@ EXCEPT !.pc = "done", !.result = "Created", !.rsvpFound = FALSE]]
  /\ UNCHANGED <<events, rsvps>>

\* createRSVP: the two populate queries of the same await (user, then event),
\* one round trip each, and the 201 response after the second.
createRSVP_populate(p) ==
  /\ req[p].pc \in {"populateUser", "populateEvent"}
  /\ req' = [req EXCEPT ![p] =
       IF req[p].pc = "populateUser"
         THEN [@ EXCEPT !.pc = "populateEvent"]
         ELSE [@ EXCEPT !.pc = "done", !.result = "Created"]]
  /\ UNCHANGED <<events, rsvps>>

\* Faulty variant: the early return on a null result is missing.
cancelRSVP_NoReturn(p, u, e) ==
  /\ NextSlot(p)
  /\ rsvps' = rsvps \ FindConfirmed(u, e)
  /\ req' = [req EXCEPT ![p] = [IdleReq EXCEPT !.op = "leave", !.user = u,
                                  !.event = e, !.pc = "dec", !.pre = Pre(u, e)]]
  /\ UNCHANGED events
\* Faulty variant: step 1 is RSVP.findOne, the record is not deleted.
cancelRSVP_findOnly(p, u, e) ==
  /\ NextSlot(p)
  /\ IF FindConfirmed(u, e) = {}
       THEN req' = [req EXCEPT ![p] =
              [IdleReq EXCEPT !.op = "leave", !.user = u, !.event = e,
                 !.pc = "done", !.result = "NotFound", !.pre = Pre(u, e)]]
       ELSE \E r \in FindConfirmed(u, e) :
              req' = [req EXCEPT ![p] =
                [IdleReq EXCEPT !.op = "leave", !.user = u, !.event = e,
                   !.pc = "dec", !.rsvp = r.id, !.pre = Pre(u, e)]]
  /\ UNCHANGED <<events, rsvps>>
\* cancelRSVP step 1: RSVP.findOneAndDelete; no confirmed RSVP ends the request.
cancelRSVP_findOneAndDelete(p, u, e) ==
  /\ NextSlot(p)
  /\ IF FindConfirmed(u, e) = {}
       THEN /\ req' = [req EXCEPT ![p] =
                  [IdleReq EXCEPT !.op = "leave", !.user = u, !.event = e,
                     !.pc = "done", !.result = "NotFound", !.pre = Pre(u, e)]]
            /\ UNCHANGED rsvps
       ELSE \E r \in FindConfirmed(u, e) :
            /\ rsvps' = rsvps \ {r}
            /\ req' = [req EXCEPT ![p] =
                  [IdleReq EXCEPT !.op = "leave", !.user = u, !.event = e,
                     !.pc = "dec", !.rsvp = r.id, !.pre = Pre(u, e)]]
  /\ UNCHANGED events

\* Faulty variant: the update has no _id filter and changes every event.
cancelRSVP_updateMany(p) ==
  /\ req[p].pc = "dec"
  /\ LET e == req[p].event
         u == req[p].user
     IN IF e \in DOMAIN events
          THEN /\ events' = [x \in DOMAIN events |-> LeaveUpdate(events[x], u)]
               /\ req' = [req EXCEPT ![p].pc = "done", ![p].result = "Cancelled",
                            ![p].doc = [currentAttendees |-> events'[e].currentAttendees,
                                        capacity |-> events'[e].capacity]]
          ELSE /\ Respond(p, "EventNotFound")
               /\ UNCHANGED events
  /\ UNCHANGED rsvps
\* cancelRSVP step 2: Event.findByIdAndUpdate and the response.
cancelRSVP_findByIdAndUpdate(p) ==
  /\ req[p].pc = "dec"
  /\ LET e == req[p].event
         u == req[p].user
     IN IF e \in DOMAIN events
          THEN /\ events' = [events EXCEPT ![e] = LeaveUpdate(@, u)]
               /\ req' = [req EXCEPT ![p].pc = "done", ![p].result = "Cancelled",
                            ![p].doc = [currentAttendees |-> events'[e].currentAttendees,
                                        capacity |-> events'[e].capacity]]
          ELSE /\ Respond(p, "EventNotFound")
               /\ UNCHANGED events
  /\ UNCHANGED rsvps

\* An awaited store call of a request in flight throws (or the process stops
\* there): the catch block of the handler answers 500 and undoes nothing.
StoreError(p) ==
  /\ req[p].pc \notin {"idle", "done"}
  /\ Respond(p, "ServerError")
  /\ UNCHANGED <<events, rsvps>>

\* The first store call of a handler throws: the request of kind o is answered
\* 500 and nothing is written.
StoreErrorOnArrival(p, o, u, e) ==
  /\ NextSlot(p)
  /\ req' = [req EXCEPT ![p] =
       [IdleReq EXCEPT !.op = o, !.user = u, !.event = e, !.pc = "done",
          !.result = "ServerError", !.pre = Pre(u, e)]]
  /\ UNCHANGED <<events, rsvps>>

\* ------------------------------------------------------ specifications
Init ==
  /\ events = [x \in {} |-> 0]
  /\ rsvps = {}
  /\ req = [p \in 1..NumReqs |-> IdleReq]

Steps ==
  \/ \E p \in DOMAIN req : createRSVP_findOneAndUpdate(p)
  \/ \E p \in DOMAIN req : RSVP_preSave(p)
  \/ \E p \in DOMAIN req : RSVP_insert(p)
  \/ \E p \in DOMAIN req : createRSVP_findById(p)
  \/ \E p \in DOMAIN req : createRSVP_populate(p)
  \/ \E p \in DOMAIN req : cancelRSVP_findByIdAndUpdate(p)

\* Any number of requests in flight at once.
Next ==
  \/ \E e \in EventIds, c \in 1..MaxCap : createEvent(e, c)
  \/ \E p \in DOMAIN req, u \in UserIds, e \in EventIds : createRSVP_findOne(p, u, e)
  \/ \E p \in DOMAIN req, u \in UserIds, e \in EventIds : cancelRSVP_findOneAndDelete(p, u, e)
  \/ Steps

Spec == Init /\ [][Next]_vars

\* One request at a time, on events already created: a request arrives only
\* when no other is in flight.
InitSeq ==
  /\ \E cap \in [EventIds -> 1..MaxCap] :
       events = [x \in EventIds |->
                   [capacity |-> cap[x], currentAttendees |-> 0, attendees |-> {}]]
  /\ rsvps = {}
  /\ req = [p \in 1..SeqReqs |-> IdleReq]

NextSeq ==
  \/ \E p \in DOMAIN req, u \in UserIds, e \in EventIds :
       Quiescent /\ createRSVP_findOne(p, u, e)
  \/ \E p \in DOMAIN req, u \in UserIds, e \in EventIds :
       Quiescent /\ cancelRSVP_findOneAndDelete(p, u, e)
  \/ Steps

SpecSeq == InitSeq /\ [][NextSeq]_vars

\* Any number of Joins and Leaves in flight at once, on events already
\* created.
InitConc ==
  /\ \E cap \in [EventIds -> 1..MaxCap] :
       events = [x \in EventIds |->
                   [capacity |-> cap[x], currentAttendees |-> 0, attendees |-> {}]]
  /\ rsvps = {}
  /\ req = [p \in 1..NumReqs |-> IdleReq]

NextConc ==
  \/ \E p \in DOMAIN req, u \in UserIds, e \in EventIds : createRSVP_findOne(p, u, e)
  \/ \E p \in DOMAIN req, u \in UserIds, e \in EventIds : cancelRSVP_findOneAndDelete(p, u, e)
  \/ Steps

SpecConc == InitConc /\ [][NextConc]_vars

\* Requests in flight at once, any store call of which may fail.
NextCrash ==
  \/ Next
  \/ \E p \in DOMAIN req : StoreError(p)
  \/ \E p \in DOMAIN req, o \in {"join", "leave"}, u \in UserIds, e \in EventIds :
       StoreErrorOnArrival(p, o, u, e)

SpecCrash == Init /\ [][NextCrash]_vars

\* The capacity race: n distinct users (user p in slot p), 2 <= n <= RaceN, join
\* event 1, which has no attendees and a capacity below n.
InitRace ==
  \E n \in 2..RaceN, c \in 1..MaxCap :
    /\ c < n
    /\ events = [x \in {1} |-> [capacity |-> c, currentAttendees |-> 0, attendees |-> {}]]
    /\ rsvps = {}
    /\ req = [p \in 1..n |-> IdleReq]

NextRace ==
  \/ \E p \in DOMAIN req : createRSVP_findOne(p, p, 1)
  \/ \E p \in DOMAIN req : createRSVP_findOneAndUpdate(p)
  \/ \E p \in DOMAIN req : RSVP_preSave(p)
  \/ \E p \in DOMAIN req : RSVP_insert(p)
  \/ \E p \in DOMAIN req : createRSVP_findById(p)
  \/ \E p \in DOMAIN req : createRSVP_populate(p)

SpecRace == InitRace /\ [][NextRace]_vars

\* ------------------------------------------------- event administration
\* The assumed length of an event in hours (the hook adds 4 * 60 * 60 * 1000 ms
\* to the event's date). Time is counted in whole hours.
Duration == 4

\* Faulty variant: an event that starts now still counts as upcoming, and
\* one that ends now still counts as ongoing.
preSaveStatus_LateBoundaries(date, now) ==
  IF now <= date THEN "upcoming"
  ELSE IF now <= date + Duration THEN "ongoing"
  ELSE "completed"
\* EventSchema.pre('save'): the status the hook stores for an event dated
\* `date` when it runs at hour `now`.
preSaveStatus(date, now) ==
  IF now < date THEN "upcoming"
  ELSE IF now >= date /\ now < date + Duration THEN "ongoing"
  ELSE "completed"

\* The document Event.create stores at hour `now`: the schema defaults, the
\* organizer of the request, the status of the pre('save') hook.
NewEvent(c, u, date, now) ==
  [capacity |-> c, currentAttendees |-> 0, attendees |-> {}, organizer |-> u,
   status |-> preSaveStatus(date, now), date |-> date]

\* What a handler keeps of the event document it has read.
Snapshot(doc) ==
  [currentAttendees |-> doc.currentAttendees, capacity |-> doc.capacity]

\* runValidators: the schema's validators on the fields the body sets
\* (capacity min 1 max 10000, currentAttendees min 0, status enum).
BodyValid(b) ==
  /\ b.capacity = Absent \/ b.capacity \in 1..10000
  /\ b.currentAttendees = Absent \/ b.currentAttendees >= 0
  /\ b.status \in {"absent", "upcoming", "ongoing", "completed", "cancelled"}

\* findByIdAndUpdate(id, req.body): every schema field of the body is $set.
ApplyBody(doc, b) ==
  [doc EXCEPT
     !.capacity = IF b.capacity = Absent THEN @ ELSE b.capacity,
     !.currentAttendees = IF b.currentAttendees = Absent THEN @ ELSE b.currentAttendees,
     !.status = IF b.status = "absent" THEN @ ELSE b.status]

\* updateEvent's guard: req.body.capacity && req.body.capacity < event.currentAttendees
\* (an absent capacity and capacity 0 are falsy).
CapacityBelowAttendees(b, doc) ==
  /\ b.capacity # Absent
  /\ b.capacity # 0
  /\ b.capacity < doc.currentAttendees

\* Faulty variant: the organizer check is missing.
updateEvent_NoOrganizerCheck(p, u, e, b) ==
  /\ NextSlot(p)
  /\ LET r == [IdleReq EXCEPT !.op = "update", !.user = u, !.event = e,
                 !.body = b, !.pre = Pre(u, e)]
     IN req' = [req EXCEPT ![p] =
          IF e \notin DOMAIN events
            THEN [r EXCEPT !.pc = "done", !.result = "EventNotFound"]
          ELSE IF CapacityBelowAttendees(b, events[e])
            THEN [r EXCEPT !.pc = "done", !.result = "CapacityBelowAttendees",
                    !.doc = Snapshot(events[e])]
          ELSE [r EXCEPT !.pc = "write", !.doc = Snapshot(events[e])]]
  /\ UNCHANGED <<events, rsvps>>
\* updateEvent, up to its second await: Event.findById, the organizer check and
\* the capacity check.
updateEvent_findById(p, u, e, b) ==
  /\ NextSlot(p)
  /\ LET r == [IdleReq EXCEPT !.op = "update", !.user = u, !.event = e,
                 !.body = b, !.pre = Pre(u, e)]
     IN req' = [req EXCEPT ![p] =
          IF e \notin DOMAIN events
            THEN [r EXCEPT !.pc = "done", !.result = "EventNotFound"]
          ELSE IF events[e].organizer # u
            THEN [r EXCEPT !.pc = "done", !.result = "NotAuthorized"]
          ELSE IF CapacityBelowAttendees(b, events[e])
            THEN [r EXCEPT !.pc = "done", !.result = "CapacityBelowAttendees",
                    !.doc = Snapshot(events[e])]
          ELSE [r EXCEPT !.pc = "write", !.doc = Snapshot(events[e])]]
  /\ UNCHANGED <<events, rsvps>>

\* updateEvent: the write of Event.findByIdAndUpdate(id, req.body, {new,
\* runValidators}). A validation error is answered with 500 by the catch
\* block; for an event that is gone the query chain ends here and the 200
\* response carries data: null; a document that was written is populated next.
updateEvent_findByIdAndUpdate(p) ==
  /\ req[p].pc = "write"
  /\ LET e == req[p].event
         b == req[p].body
     IN IF ~ BodyValid(b)
          THEN /\ Respond(p, "ServerError")
               /\ UNCHANGED events
        ELSE IF e \notin DOMAIN events
          THEN /\ req' = [req EXCEPT ![p].pc = "done", ![p].result = "Updated",
                            ![p].doc = NoDoc]
               /\ UNCHANGED events
        ELSE /\ events' = [events EXCEPT ![e] = ApplyBody(@, b)]
             /\ req' = [req EXCEPT ![p].pc = "populateOrganizer",
                          ![p].doc = Snapshot(events'[e])]
  /\ UNCHANGED rsvps

\* updateEvent: the populate('organizer') query of the same await and the 200
\* response.
updateEvent_populate(p) ==
  /\ req[p].op = "update"
  /\ req[p].pc = "populateOrganizer"
  /\ Respond(p, "Updated")
  /\ UNCHANGED <<events, rsvps>>

\* The Event collection without the events of `gone`.
Without(gone) == [x \in DOMAIN events \ gone |-> events[x]]

\* deleteEvent, up to its second await: Event.findById and the organizer check.
deleteEvent_findById(p, u, e) ==
  /\ NextSlot(p)
  /\ LET r == [IdleReq EXCEPT !.op = "deleteEvent", !.user = u, !.event = e,
                 !.pre = Pre(u, e)]
     IN req' = [req EXCEPT ![p] =
          IF e \notin DOMAIN events
            THEN [r EXCEPT !.pc = "done", !.result = "EventNotFound"]
          ELSE IF events[e].organizer # u
            THEN [r EXCEPT !.pc = "done", !.result = "NotAuthorized"]
          ELSE [r EXCEPT !.pc = "delRsvps", !.doc = Snapshot(events[e])]]
  /\ UNCHANGED <<events, rsvps>>

\* deleteEvent: RSVP.deleteMany({event}).
deleteEvent_deleteMany(p) ==
  /\ req[p].pc = "delRsvps"
  /\ rsvps' = {r \in rsvps : r.event # req[p].event}
  /\ req' = [req EXCEPT ![p].pc = "delEvent"]
  /\ UNCHANGED events

\* deleteEvent: event.deleteOne() and the response.
deleteEvent_deleteOne(p) ==
  /\ req[p].pc = "delEvent"
  /\ events' = Without({req[p].event})
  /\ Respond(p, "Deleted")
  /\ UNCHANGED rsvps

\* deleteAccount: Event.deleteMany({organizer: userId}).
deleteAccount_deleteEvents(p, u) ==
  /\ NextSlot(p)
  /\ LET gone == {x \in DOMAIN events : events[x].organizer = u}
     IN /\ events' = Without(gone)
        /\ req' = [req EXCEPT ![p] =
             [IdleReq EXCEPT !.op = "deleteAccount", !.user = u,
                !.pc = "delUserRsvps", !.removed = gone]]
  /\ UNCHANGED rsvps

\* deleteAccount: RSVP.deleteMany({user: userId}).
deleteAccount_deleteRsvps(p) ==
  /\ req[p].pc = "delUserRsvps"
  /\ rsvps' = {r \in rsvps : r.user # req[p].user}
  /\ req' = [req EXCEPT ![p].pc = "delUser"]
  /\ UNCHANGED events

\* deleteAccount: User.findByIdAndDelete and the response. The User collection
\* is not part of the state.
deleteAccount_deleteUser(p) ==
  /\ req[p].pc = "delUser"
  /\ Respond(p, "AccountDeleted")
  /\ UNCHANGED <<events, rsvps>>

\* getEventById at hour t, on the public route (req.user is undefined, so
\* hasRSVP stays false): the main query of Event.findById. The handler holds
\* the stored document from here on; a document that is found is populated
\* next. Hours do not run backwards from one request to the next.
getEventById(p, e, t) ==
  /\ NextSlot(p)
  /\ \A q \in DOMAIN req : q < p => req[q].at <= t
  /\ LET r == [IdleReq EXCEPT !.op = "read", !.event = e, !.at = t]
     IN req' = [req EXCEPT ![p] =
          IF e \notin DOMAIN events
            THEN [r EXCEPT !.pc = "done", !.result = "EventNotFound"]
            ELSE [r EXCEPT !.seen = events[e].status, !.doc = Snapshot(events[e]),
                    !.pc = IF events[e].attendees = {}
                             THEN "populateOrganizerOnly"
                             ELSE "populateOrganizer"]]
  /\ UNCHANGED <<events, rsvps>>

\* getEventById: the populate queries of the same await, organizer and then
\* attendees (no query is sent for an empty attendees list), and the 200
\* response.
getEventById_populate(p) ==
  /\ req[p].op = "read"
  /\ req[p].pc \in {"populateOrganizerOnly", "populateOrganizer", "populateAttendees"}
  /\ req' = [req EXCEPT ![p] =
       IF req[p].pc = "populateOrganizer"
         THEN [@ EXCEPT !.pc = "populateAttendees"]
         ELSE [@ EXCEPT !.pc = "done", !.result = "Found"]]
  /\ UNCHANGED <<events, rsvps>>

\* createEvent by user u at hour t, up to the moment Event.create sends its
\* insert: the work done in the process. The date validator reads the clock
\* at hour t (a new event's date is in the future) and the pre('save') hook
\* reads it again at hour th to set the status of the document the handler
\* holds. A refused date is answered 500 by the catch block; nothing has been
\* sent to the store.
createEvent_validate(p, u, c, date, t, th) ==
  /\ NextSlot(p)
  /\ \A q \in DOMAIN req : q < p => req[q].at <= t
  /\ th \in {t, t + 1}
  /\ LET r == [IdleReq EXCEPT !.op = "create", !.user = u]
     IN req' = [req EXCEPT ![p] =
          IF date > t
            THEN [r EXCEPT !.at = th, !.created = NewEvent(c, u, date, th),
                    !.pc = "insertEvent"]
            ELSE [r EXCEPT !.at = t, !.pc = "done", !.result = "ServerError"]]
  /\ UNCHANGED <<events, rsvps>>

\* createEvent, the store round trip of Event.create: the document validated
\* and stamped earlier is inserted under a fresh id e, whatever the hour has
\* become and whatever requests have been served since.
createEvent_insert(p, e) ==
  /\ req[p].pc = "insertEvent"
  /\ e \notin DOMAIN events
  /\ events' = [x \in DOMAIN events \cup {e} |->
                  IF x = e THEN req[p].created ELSE events[x]]
  /\ req' = [req EXCEPT ![p].event = e, ![p].pc = "populateEvent"]
  /\ UNCHANGED rsvps

\* createEvent: event.populate('organizer') and the 201 response.
createEvent_populate(p) ==
  /\ req[p].pc = "populateEvent"
  /\ Respond(p, "Created")
  /\ UNCHANGED <<events, rsvps>>

\* ---------------------------------- specifications with administration
\* Request bodies of updateEvent: one schema field each. Capacity 0 and
\* currentAttendees -1 are the values the validators refuse.
CapacityBodies == {[NoBody EXCEPT !.capacity = c] : c \in 0..MaxCap}
CounterBodies == {[NoBody EXCEPT !.currentAttendees = k] : k \in -1..MaxCap}
StatusBodies == {[NoBody EXCEPT !.status = s] : s \in {"upcoming", "completed", "cancelled"}}
Bodies == CapacityBodies \cup CounterBodies \cup StatusBodies

\* Every event exists, created at hour 0 for hour 1 by some user, no
\* reservations yet.
InitAdmin(n) ==
  /\ \E cap \in [EventIds -> 1..MaxCap], org \in [EventIds -> UserIds] :
       events = [x \in EventIds |-> NewEvent(cap[x], org[x], 1, 0)]
  /\ rsvps = {}
  /\ req = [p \in 1..n |-> IdleReq]

AdminSteps ==
  \/ \E p \in DOMAIN req : updateEvent_findByIdAndUpdate(p)
  \/ \E p \in DOMAIN req : updateEvent_populate(p)
  \/ \E p \in DOMAIN req : deleteEvent_deleteMany(p)
  \/ \E p \in DOMAIN req : deleteEvent_deleteOne(p)
  \/ \E p \in DOMAIN req : deleteAccount_deleteRsvps(p)
  \/ \E p \in DOMAIN req : deleteAccount_deleteUser(p)

\* Join, Leave, updateEvent, deleteEvent and deleteAccount, one request at a
\* time.
InitAdminSeq == InitAdmin(AdmReqs)

NextAdminSeq ==
  \/ \E p \in DOMAIN req, u \in UserIds, e \in EventIds :
       Quiescent /\ createRSVP_findOne(p, u, e)
  \/ \E p \in DOMAIN req, u \in UserIds, e \in EventIds :
       Quiescent /\ cancelRSVP_findOneAndDelete(p, u, e)
  \/ \E p \in DOMAIN req, u \in UserIds, e \in EventIds, b \in Bodies :
       Quiescent /\ updateEvent_findById(p, u, e, b)
  \/ \E p \in DOMAIN req, u \in UserIds, e \in EventIds :
       Quiescent /\ deleteEvent_findById(p, u, e)
  \/ \E p \in DOMAIN req, u \in UserIds :
       Quiescent /\ deleteAccount_deleteEvents(p, u)
  \/ Steps
  \/ AdminSteps

SpecAdminSeq == InitAdminSeq /\ [][NextAdminSeq]_vars

\* The same requests, any store call of which may fail.
NextAdminCrash ==
  \/ NextAdminSeq
  \/ \E p \in DOMAIN req : StoreError(p)
  \/ \E p \in DOMAIN req, o \in {"join", "leave", "update", "deleteEvent"},
        u \in UserIds, e \in EventIds :
       Quiescent /\ StoreErrorOnArrival(p, o, u, e)
  \/ \E p \in DOMAIN req, u \in UserIds :
       Quiescent /\ StoreErrorOnArrival(p, "deleteAccount", u, 0)

SpecAdminCrash == InitAdminSeq /\ [][NextAdminCrash]_vars

\* Join, updateEvent with a capacity and deleteEvent, any of them in flight
\* at once.
InitAdminConc == InitAdmin(ConcReqs)

NextAdminConc ==
  \/ \E p \in DOMAIN req, u \in UserIds, e \in EventIds : createRSVP_findOne(p, u, e)
  \/ \E p \in DOMAIN req, u \in UserIds, e \in EventIds, b \in CapacityBodies :
       updateEvent_findById(p, u, e, b)
  \/ \E p \in DOMAIN req, u \in UserIds, e \in EventIds : deleteEvent_findById(p, u, e)
  \/ \E p \in DOMAIN req : createRSVP_findOneAndUpdate(p)
  \/ \E p \in DOMAIN req : RSVP_preSave(p)
  \/ \E p \in DOMAIN req : RSVP_insert(p)
  \/ \E p \in DOMAIN req : createRSVP_findById(p)
  \/ \E p \in DOMAIN req : createRSVP_populate(p)
  \/ \E p \in DOMAIN req : updateEvent_findByIdAndUpdate(p)
  \/ \E p \in DOMAIN req : updateEvent_populate(p)
  \/ \E p \in DOMAIN req : deleteEvent_deleteMany(p)
  \/ \E p \in DOMAIN req : deleteEvent_deleteOne(p)

SpecAdminConc == InitAdminConc /\ [][NextAdminConc]_vars

\* Events are created and read while the wall clock advances. The hour of a
\* request is the hour of its last clock read; store round trips carry no
\* hour, so a create's insert may land after later requests were served.
InitClock ==
  /\ events = [x \in {} |-> 0]
  /\ rsvps = {}
  /\ req = [p \in 1..ClockReqs |-> IdleReq]

NextClock ==
  \/ \E p \in DOMAIN req, u \in UserIds, c \in 1..MaxCap,
        date \in 0..MaxDate, t \in 0..MaxTime, th \in 0..MaxTime :
       createEvent_validate(p, u, c, date, t, th)
  \/ \E p \in DOMAIN req, e \in EventIds : createEvent_insert(p, e)
  \/ \E p \in DOMAIN req : createEvent_populate(p)
  \/ \E p \in DOMAIN req, e \in EventIds, t \in 0..MaxTime : getEventById(p, e, t)
  \/ \E p \in DOMAIN req : getEventById_populate(p)

SpecClock == InitClock /\ [][NextClock]_vars

\* Join, updateEvent with a status and deleteEvent by any user, one request
\* at a time; the events share one organizer and one capacity.
InitAuth ==
  /\ \E c \in 1..MaxCap, o \in UserIds :
       events = [x \in EventIds |-> NewEvent(c, o, 1, 0)]
  /\ rsvps = {}
  /\ req = [p \in 1..AuthReqs |-> IdleReq]

NextAuth ==
  \/ \E p \in DOMAIN req, u \in UserIds, e \in EventIds :
       Quiescent /\ createRSVP_findOne(p, u, e)
  \/ \E p \in DOMAIN req, u \in UserIds, e \in EventIds, b \in StatusBodies :
       Quiescent /\ updateEvent_findById(p, u, e, b)
  \/ \E p \in DOMAIN req, u \in UserIds, e \in EventIds :
       Quiescent /\ deleteEvent_findById(p, u, e)
  \/ \E p \in DOMAIN req : createRSVP_findOneAndUpdate(p)
  \/ \E p \in DOMAIN req : RSVP_preSave(p)
  \/ \E p \in DOMAIN req : RSVP_insert(p)
  \/ \E p \in DOMAIN req : createRSVP_findById(p)
  \/ \E p \in DOMAIN req : createRSVP_populate(p)
  \/ \E p \in DOMAIN req : updateEvent_findByIdAndUpdate(p)
  \/ \E p \in DOMAIN req : updateEvent_populate(p)
  \/ \E p \in DOMAIN req : deleteEvent_deleteMany(p)
  \/ \E p \in DOMAIN req : deleteEvent_deleteOne(p)

SpecAuth == InitAuth /\ [][NextAuth]_vars

\* A save of the event document e at hour t. The first pre('save') hook
\* assigns the status; the second one throws when currentAttendees is above
\* capacity, and then nothing is written. The slot keeps what the first hook
\* assigned.
Event_preSave(p, e, t) ==
  /\ NextSlot(p)
  /\ e \in DOMAIN events
  /\ LET s == preSaveStatus(events[e].date, t)
         r == [IdleReq EXCEPT !.op = "save", !.event = e, !.at = t, !.pc = "done",
                 !.seen = s, !.doc = Snapshot(events[e])]
     IN IF events[e].currentAttendees > events[e].capacity
          THEN /\ req' = [req EXCEPT ![p] = [r EXCEPT !.result = "SaveFailed"]]
               /\ UNCHANGED events
          ELSE /\ events' = [events EXCEPT ![e].status = s]
               /\ req' = [req EXCEPT ![p] = [r EXCEPT !.result = "Saved"]]
  /\ UNCHANGED rsvps

\* The status hook on its own: event 1, created at hour 0 for a later hour,
\* whose counter an updateEvent may have set to any value from 0 to one above
\* the capacity, is saved at any hours.
InitHook ==
  /\ \E c \in 1..MaxCap, date \in 1..MaxDate, k \in 0..(MaxCap + 1) :
       /\ k <= c + 1
       /\ events = [x \in {1} |->
                      [NewEvent(c, 1, date, 0) EXCEPT !.currentAttendees = k]]
  /\ rsvps = {}
  /\ req = [p \in 1..ClockReqs |-> IdleReq]

NextHook == \E p \in DOMAIN req, t \in 0..MaxTime : Event_preSave(p, 1, t)

SpecHook == InitHook /\ [][NextHook]_vars

\* No request is in flight on event e.
EventQuiet(e) ==
  \A q \in DOMAIN req : req[q].pc \notin {"idle", "done"} => req[q].event # e

\* Join and Leave on events 1 and 2, which have the same capacity: requests on
\* one event run one at a time, requests on different events interleave.
InitFrame ==
  /\ \E c \in 1..MaxCap :
       events = [x \in {1, 2} |-> [capacity |-> c, currentAttendees |-> 0, attendees |-> {}]]
  /\ rsvps = {}
  /\ req = [p \in 1..FrameReqs |-> IdleReq]

NextFrame ==
  \/ \E p \in DOMAIN req, u \in UserIds, e \in {1, 2} :
       EventQuiet(e) /\ createRSVP_findOne(p, u, e)
  \/ \E p \in DOMAIN req, u \in UserIds, e \in {1, 2} :
       EventQuiet(e) /\ cancelRSVP_findOneAndDelete(p, u, e)
  \/ Steps

SpecFrame == InitFrame /\ [][NextFrame]_vars

\* The Leave race: user 1 joins event 1 in slot 1, and n Leaves of users for
\* event 1, 2 <= n <= LeaveN, arrive in the slots after it at any moment.
InitLeaveRace ==
  \E n \in 2..LeaveN, c \in 1..MaxCap :
    /\ events = [x \in {1} |-> [capacity |-> c, currentAttendees |-> 0, attendees |-> {}]]
    /\ rsvps = {}
    /\ req = [p \in 1..(n + 1) |-> IdleReq]

NextLeaveRace ==
  \/ createRSVP_findOne(1, 1, 1)
  \/ \E p \in DOMAIN req \ {1}, u \in UserIds : cancelRSVP_findOneAndDelete(p, u, 1)
  \/ Steps

SpecLeaveRace == InitLeaveRace /\ [][NextLeaveRace]_vars

\* ------------------------------------------------------------- claims
Done(p) == req[p].pc = "done"

\* The request's capacity gate matched: the handler's `event` is not null.
Gated(p) == req[p].doc # NoDoc

Joined(p) == req[p].op = "join" /\ Done(p) /\ req[p].result = "Created"

\* C1: for every event, in every reachable state, currentAttendees equals
\* the number of its reservation records with status confirmed.
C1_CounterEqualsConfirmed ==
  \A e \in DOMAIN events : events[e].currentAttendees = ConfirmedCount(e)

\* C2: for every event currentAttendees <= capacity in every reachable state,
\* under any interleaving of Join and Leave calls.
C2_NeverOverCapacity ==
  \A e \in DOMAIN events : events[e].currentAttendees <= events[e].capacity

\* C2 witness: an event is full and a Join that arrived when the event
\* existed was turned away by the gate.
C2_FullEventRejects ==
  \E p \in DOMAIN req :
    /\ Done(p) /\ req[p].op = "join" /\ req[p].result = "FullOrMissing"
    /\ req[p].pre.currentAttendees >= 0
    /\ events[req[p].event].currentAttendees = events[req[p].event].capacity

\* C3: every (user, event) pair has at most one reservation record with
\* status confirmed in every reachable state, concurrent Joins of one user
\* included.
C3_AtMostOneConfirmed ==
  \A r1 \in rsvps, r2 \in rsvps :
    (/\ r1.user = r2.user /\ r1.event = r2.event
     /\ r1.status = "confirmed" /\ r2.status = "confirmed") => r1 = r2

\* C3 witness: two Joins of one user for one event both passed step 1 and the
\* capacity gate; one created the reservation, the other was refused.
C3_SameUserRace ==
  \E p \in DOMAIN req, q \in DOMAIN req :
    /\ p # q /\ req[p].user = req[q].user /\ req[p].event = req[q].event
    /\ Joined(p) /\ Gated(p)
    /\ req[q].op = "join" /\ Done(q) /\ Gated(q) /\ req[q].result = "AlreadyReserved"
    /\ Cardinality(FindConfirmed(req[p].user, req[p].event)) = 1

\* C4: when N Joins of N distinct users race for an event with no attendees
\* and capacity C < N, exactly C succeed, each with its confirmed reservation,
\* exactly N - C are turned away by the gate, and currentAttendees ends at C;
\* with C = 1 the one success reports availableSpots = 0.
C4_ExactlyCapacityManySucceed ==
  (\A p \in DOMAIN req : Done(p)) =>
    LET C == events[1].capacity
        N == Cardinality(DOMAIN req)
        Won == {p \in DOMAIN req : req[p].result = "Created"}
        Lost == {p \in DOMAIN req : req[p].result = "FullOrMissing"}
    IN /\ Cardinality(Won) = C
       /\ Cardinality(Lost) = N - C
       /\ events[1].currentAttendees = C
       /\ ConfirmedCount(1) = C
       /\ \A p \in Won : /\ req[p].rsvpFound
                         /\ \E r \in FindConfirmed(req[p].user, 1) : r.id = req[p].rsvp
       /\ C = 1 => \A p \in Won : AvailableSpots(p) = 0

\* C4 witness: the race is over, some Joins won and some were turned away.
C4_RaceOver ==
  /\ \A p \in DOMAIN req : Done(p)
  /\ \E p \in DOMAIN req : req[p].result = "Created" /\ AvailableSpots(p) = 0
  /\ \E p \in DOMAIN req : req[p].result = "FullOrMissing"

\* C5: a Join whose reservation creation fails after its capacity gate
\* succeeded reverses its increment before it returns AlreadyReserved: once it
\* has returned and nothing else is in flight, the two ledgers agree.
C5_DuplicateIsCompensated ==
  \A p \in DOMAIN req :
    (/\ req[p].op = "join" /\ Done(p) /\ req[p].result = "AlreadyReserved"
     /\ Gated(p) /\ Quiescent)
    => events[req[p].event].currentAttendees = ConfirmedCount(req[p].event)

\* C6: a Join arriving for a pair that already holds a confirmed reservation
\* is answered AlreadyReserved at once and changes neither the events nor the
\* reservation records.
C6_DuplicateJoinRejected ==
  [][\A p \in DOMAIN req :
       (/\ req[p].pc = "idle" /\ req'[p].op = "join"
        /\ FindConfirmed(req'[p].user, req'[p].event) # {})
       => (/\ req'[p].pc = "done" /\ req'[p].result = "AlreadyReserved"
           /\ events' = events /\ rsvps' = rsvps)]_vars

\* C6 witness: a Join was answered AlreadyReserved at step 1, before the gate,
\* and the pair's confirmed reservation is there.
C6_SecondJoinSeen ==
  \E p \in DOMAIN req :
    /\ req[p].op = "join" /\ Done(p) /\ req[p].result = "AlreadyReserved"
    /\ ~ Gated(p) /\ req[p].pre.reserved
    /\ FindConfirmed(req[p].user, req[p].event) # {}

\* C7: a Join or Leave that stops between its two store steps leaves no
\* half-applied state: with nothing in flight, currentAttendees equals the
\* number of confirmed reservations of every event.
C7_NoHalfAppliedState ==
  (Quiescent /\ \E p \in DOMAIN req : req[p].result = "ServerError")
  => \A e \in DOMAIN events : events[e].currentAttendees = ConfirmedCount(e)

\* Requests i, i+1, i+2 are Join, Leave, Join of one pair, all answered, and
\* the first arrived when the event had a free slot and the pair held no
\* reservation.
RoundTrip(i) ==
  /\ i + 2 \in DOMAIN req
  /\ Done(i) /\ Done(i + 1) /\ Done(i + 2)
  /\ req[i].op = "join" /\ req[i + 1].op = "leave" /\ req[i + 2].op = "join"
  /\ req[i + 1].user = req[i].user /\ req[i + 2].user = req[i].user
  /\ req[i + 1].event = req[i].event /\ req[i + 2].event = req[i].event
  /\ req[i].pre.currentAttendees >= 0
  /\ req[i].pre.currentAttendees < events[req[i].event].capacity
  /\ ~ req[i].pre.reserved

\* C8: for one pair on an event with a free slot, Join, Leave, Join succeeds
\* at every step, currentAttendees after the Leave is what it was before the
\* first Join, and after the second Join (before any later request) the pair
\* holds exactly one confirmed reservation.
C8_JoinLeaveJoin ==
  \A i \in DOMAIN req :
    RoundTrip(i) =>
      /\ req[i].result = "Created" /\ req[i].rsvpFound
      /\ req[i + 1].result = "Cancelled"
      /\ req[i + 1].doc.currentAttendees = req[i].pre.currentAttendees
      /\ req[i + 2].result = "Created" /\ req[i + 2].rsvpFound
      /\ req[i + 2].doc.currentAttendees = req[i].pre.currentAttendees + 1
      /\ (\A q \in DOMAIN req : q > i + 2 => req[q].pc = "idle") =>
           /\ Cardinality(FindConfirmed(req[i].user, req[i].event)) = 1
           /\ events[req[i].event].currentAttendees = req[i].pre.currentAttendees + 1

\* C8 witness: a round trip has been completed.
C8_RoundTripDone ==
  \E i \in DOMAIN req : RoundTrip(i) /\ req[i + 2].result = "Created"

\* C9: a Leave arriving for a pair with no confirmed reservation is answered
\* NotFound and changes neither the events nor the reservation records.
C9_LeaveWithoutReservation ==
  [][\A p \in DOMAIN req :
       (/\ req[p].pc = "idle" /\ req'[p].op = "leave"
        /\ FindConfirmed(req'[p].user, req'[p].event) = {})
       => (/\ req'[p].pc = "done" /\ req'[p].result = "NotFound"
           /\ events' = events /\ rsvps' = rsvps)]_vars

\* C9 witness: a Leave was answered NotFound on an existing event.
C9_NotFoundSeen ==
  \E p \in DOMAIN req :
    /\ req[p].op = "leave" /\ Done(p) /\ req[p].result = "NotFound"
    /\ req[p].event \in DOMAIN events

\* C10: a Leave never removes a reservation record (it is kept with status
\* cancelled), so the record created by every successful Join still exists.
C10_RecordsAreKept ==
  \A p \in DOMAIN req : Joined(p) => \E r \in rsvps : r.id = req[p].rsvp

\* C16: for every event, in every reachable state, the attendee set has
\* currentAttendees members and is exactly the set of users holding a
\* confirmed reservation for the event.
C16_AttendeeSetMatches ==
  \A e \in DOMAIN events :
    /\ Cardinality(events[e].attendees) = events[e].currentAttendees
    /\ events[e].attendees = {r.user : r \in {x \in rsvps : x.event = e /\ x.status = "confirmed"}}

\* C19: a Leave whose counter update fails or finds no event after the
\* reservation was removed ends with ReconciliationRequired, and once the same
\* Leave has been retried, with nothing in flight, currentAttendees agrees with
\* the number of confirmed reservations.
C19_LeaveFailureIsReconciled ==
  \A p \in DOMAIN req :
    (/\ req[p].op = "leave" /\ Done(p) /\ req[p].rsvp # 0
     /\ req[p].result # "Cancelled")
    => /\ req[p].result = "ReconciliationRequired"
       /\ \A q \in DOMAIN req :
            (/\ q > p /\ Quiescent /\ req[q].op = "leave"
             /\ req[q].user = req[p].user /\ req[q].event = req[p].event
             /\ req[p].event \in DOMAIN events)
            => events[req[p].event].currentAttendees = ConfirmedCount(req[p].event)

\* C11: no step of a Join on an event whose status is cancelled or completed
\* changes the event collection (currentAttendees, attendee set) or the
\* reservation records, and no such Join ends as created.
C11_ClosedEventRejectsJoin ==
  [][\A p \in DOMAIN req :
       LET e == req'[p].event
       IN (/\ req'[p].op = "join" /\ req'[p] # req[p]
           /\ e \in DOMAIN events
           /\ events[e].status \in {"cancelled", "completed"})
          => /\ events' = events
             /\ rsvps' = rsvps
             /\ req'[p].result # "Created"]_vars

\* C13: a step of updateEvent, whatever its request body, leaves
\* currentAttendees and the attendee set of every event unchanged.
C13_UpdateKeepsCounterAndAttendees ==
  [][\A p \in DOMAIN req :
       (req'[p].op = "update" /\ req'[p] # req[p])
       => \A e \in DOMAIN events :
            /\ e \in DOMAIN events'
            /\ events'[e].currentAttendees = events[e].currentAttendees
            /\ events'[e].attendees = events[e].attendees]_vars

\* C18: an event whose status is cancelled keeps that status for as long as
\* it exists.
C18_CancelledStaysCancelled ==
  [][\A e \in DOMAIN events :
       (events[e].status = "cancelled" /\ e \in DOMAIN events')
       => events'[e].status = "cancelled"]_vars

\* C20: currentAttendees >= 0 for every event in every reachable state.
C20_CounterNeverNegative ==
  \A e \in DOMAIN events : events[e].currentAttendees >= 0

\* C12: after every updateEvent that has written the event, the event's
\* capacity is at least its currentAttendees, also when a Join ran between
\* the update's read and its write.
C12_CapacityCoversAttendeesAfterUpdate ==
  [][\A p \in DOMAIN req :
       (/\ req[p].op = "update" /\ req[p].pc = "write"
        /\ req'[p].pc = "populateOrganizer"
        /\ req[p].event \in DOMAIN events')
       => events'[req[p].event].capacity >= events'[req[p].event].currentAttendees]_vars

\* C14: once a deleteEvent has completed and every Join that was racing with
\* it has ended, no reservation record references the deleted event.
C14_NoReservationOfDeletedEvent ==
  \A p \in DOMAIN req :
    (/\ req[p].op = "deleteEvent" /\ Done(p) /\ req[p].result = "Deleted"
     /\ Quiescent)
    => ~ \E r \in rsvps : r.event = req[p].event

\* C15: when deleteAccount(u) has completed, as the latest request and with
\* only Joins, Leaves and deleteEvents before it, (a) no reservation record
\* references an event that was deleted with the account, and (b) every
\* remaining event has currentAttendees equal to its number of confirmed
\* reservations and does not list u as an attendee.
C15_AccountDeletionCascades ==
  \A p \in DOMAIN req :
    (/\ req[p].op = "deleteAccount" /\ Done(p)
     /\ \A q \in DOMAIN req : q > p => req[q].pc = "idle"
     /\ \A q \in DOMAIN req : q < p => req[q].op \in {"join", "leave", "deleteEvent"})
    => /\ \A r \in rsvps : r.event \notin req[p].removed
       /\ \A e \in DOMAIN events :
            /\ events[e].currentAttendees = ConfirmedCount(e)
            /\ req[p].user \notin events[e].attendees

\* C17: the status in the response of a read at hour t of a non-cancelled
\* event dated d is upcoming while t < d, ongoing from d on and completed
\* from d + 4 hours on, with no write to the event in between.
C17_ReadStatusFollowsClock ==
  \A p \in DOMAIN req :
    (/\ req[p].op = "read" /\ Done(p) /\ req[p].result = "Found"
     /\ req[p].seen # "cancelled")
    => req[p].seen = preSaveStatus(events[req[p].event].date, req[p].at)

\* C21: a Join turned away by the capacity gate answers NotFound when the
\* event does not exist and CapacityExceeded when the event exists and is
\* full.
C21_GateRejectionNamesItsCause ==
  [][\A p \in DOMAIN req :
       (req[p].op = "join" /\ req[p].pc = "gate" /\ req'[p].pc = "done")
       => /\ req[p].event \notin DOMAIN events => req'[p].result = "NotFound"
          /\ req[p].event \in DOMAIN events => req'[p].result = "CapacityExceeded"]_vars

\* C22: an updateEvent or deleteEvent that arrives from a user who is not the
\* organizer of the (existing) event ends at once as not authorized, and the
\* event collection and the reservation records stay as they were.
C22_NonOrganizerIsRejected ==
  [][\A p \in DOMAIN req :
       LET e == req'[p].event
       IN (/\ req[p].pc = "idle" /\ req'[p].op \in {"update", "deleteEvent"}
           /\ e \in DOMAIN events
           /\ events[e].organizer # req'[p].user)
          => /\ req'[p].pc = "done"
             /\ req'[p].result = "NotAuthorized"
             /\ events' = events
             /\ rsvps' = rsvps]_vars

\* C22 witness: a non-organizer's updateEvent was refused on an event that
\* holds a reservation.
C22_NonOrganizerRefused ==
  \E p \in DOMAIN req :
    /\ req[p].op = "update" /\ Done(p) /\ req[p].result = "NotAuthorized"
    /\ req[p].event \in DOMAIN events
    /\ events[req[p].event].organizer # req[p].user
    /\ \E r \in rsvps : r.event = req[p].event

\* C23: the status a save at hour n gives an event dated d is upcoming iff
\* n < d, ongoing iff d <= n < d + 4, completed iff n >= d + 4, and it is one
\* of the three for every d and n.
C23_StatusIsThreeWay ==
  \A p \in DOMAIN req :
    (req[p].op = "save" /\ Done(p))
    => LET d == events[req[p].event].date
           n == req[p].at
           s == req[p].seen
       IN /\ s \in {"upcoming", "ongoing", "completed"}
          /\ s = "upcoming" <=> n < d
          /\ s = "ongoing" <=> (d <= n /\ n < d + Duration)
          /\ s = "completed" <=> n >= d + Duration

\* C23 witness: saves of one event have given each of the three statuses, the
\* ongoing one at the event's date and the completed one exactly 4 hours later.
C23_AllThreeSeen ==
  \E p, q, r \in DOMAIN req :
    /\ req[p].op = "save" /\ req[p].seen = "upcoming"
    /\ req[q].op = "save" /\ req[q].seen = "ongoing"
    /\ req[q].at = events[req[q].event].date
    /\ req[r].op = "save" /\ req[r].seen = "completed"
    /\ req[r].at = events[req[r].event].date + Duration

\* What a Join or Leave answers when it runs alone on its event, from what its
\* own event and pair held when it arrived.
OwnEventOutcome(p) ==
  LET cap == events[req[p].event].capacity
  IN IF req[p].op = "join"
       THEN IF req[p].pre.reserved THEN "AlreadyReserved"
            ELSE IF req[p].pre.currentAttendees < cap THEN "Created"
            ELSE "FullOrMissing"
       ELSE IF req[p].pre.reserved THEN "Cancelled" ELSE "NotFound"

\* C24: a step of a Join or Leave on event E changes no event other than E
\* and no reservation record of another event, and the answer of a finished
\* Join or Leave is the one it gives when it runs alone on E, whatever ran on
\* the other event meanwhile.
C24_OtherEventsUntouched ==
  [][/\ \A p \in DOMAIN req :
          req'[p] # req[p]
          => \A f \in DOMAIN events :
               f # req'[p].event
               => /\ f \in DOMAIN events' /\ events'[f] = events[f]
                  /\ {r \in rsvps' : r.event = f} = {r \in rsvps : r.event = f}
     /\ \A p \in DOMAIN req :
          req'[p].pc = "done"
          => /\ req'[p].result = OwnEventOutcome(p)'
             /\ req'[p].result = "Created"
                  => req'[p].doc.currentAttendees = req'[p].pre.currentAttendees + 1
             /\ req'[p].result = "Cancelled"
                  => req'[p].doc.currentAttendees = req'[p].pre.currentAttendees - 1]_vars

\* C24 witness: a Join that has passed the gate of one event and a Leave that
\* has removed its reservation of the other event are in flight together.
C24_TwoEventsInFlight ==
  \E p, q \in DOMAIN req :
    /\ req[p].op = "join" /\ req[p].pc \in {"presave", "insert", "populate", "populateUser", "populateEvent"}
    /\ req[q].op = "leave" /\ req[q].pc = "dec"
    /\ req[p].event # req[q].event

\* C25: in every reachable state, mid-operation states included, the number
\* of confirmed reservation records of an event is at most its
\* currentAttendees, which is at most its capacity.
C25_LedgerNeverOverbooked ==
  \A e \in DOMAIN events :
    /\ ConfirmedCount(e) <= events[e].currentAttendees
    /\ ConfirmedCount(e) <= events[e].capacity

\* C25 witness: a Join has passed the gate and not yet inserted its
\* reservation, so the counter is above the number of confirmed reservations.
C25_CounterOverstates ==
  \E p \in DOMAIN req :
    /\ req[p].op = "join" /\ req[p].pc \in {"presave", "insert"}
    /\ ConfirmedCount(req[p].event) < events[req[p].event].currentAttendees

\* The Leaves of user u for event e.
LeavesOf(u, e) ==
  {p \in DOMAIN req : req[p].op = "leave" /\ req[p].user = u /\ req[p].event = e}

\* C26: when several Leaves of one user for one event have run, the first of
\* them having arrived while the user held the one confirmed reservation,
\* exactly one of them has succeeded, every other has answered NotFound, and
\* currentAttendees is one below what it was when the first arrived.
C26_OneLeaveWins ==
  \A p \in DOMAIN req :
    LET L == LeavesOf(req[p].user, req[p].event)
    IN (/\ req[p].op = "leave" /\ req[p].pre.reserved
        /\ Cardinality(L) >= 2
        /\ \A q \in L : Done(q))
       => /\ Cardinality({q \in L : req[q].result = "Cancelled"}) = 1
          /\ \A q \in L : req[q].result \in {"Cancelled", "NotFound"}
          /\ events[req[p].event].currentAttendees = req[p].pre.currentAttendees - 1

\* C26 witness: two Leaves of the same pair are done, one succeeded, and the
\* other arrived while the first was in flight (the reservation was already
\* removed, the counter not yet decremented) and answered NotFound.
C26_LeavesRaced ==
  \E p, q \in DOMAIN req :
    /\ p < q /\ q \in LeavesOf(req[p].user, req[p].event)
    /\ req[p].op = "leave" /\ Done(p) /\ req[p].result = "Cancelled"
    /\ Done(q) /\ req[q].result = "NotFound"
    /\ ~ req[q].pre.reserved
    /\ req[q].pre.currentAttendees = req[p].pre.currentAttendees

====
